---- MODULE Spec2Model ----
(***************************************************************************)
(* Model of nonlinear_solvers/solvers.py: newton_raphson, bisection and    *)
(* solve, which composes them through the ConvergenceError exception.      *)
(*                                                                         *)
(* Scalars.  A Python float is modelled as an integer multiple of one unit *)
(* of precision with magnitude at most MaxFloat, or one of the non-finite  *)
(* values Inf, -Inf, NaN.  Arithmetic follows IEEE 754 as Python exposes   *)
(* it: a finite sum or product is exact and overflows to +-Inf beyond      *)
(* MaxFloat; the true division `/` rounds its quotient to the nearest      *)
(* representable value, ties to even, and raises ZeroDivisionError on a    *)
(* zero divisor; Inf - Inf, 0 * Inf and Inf / Inf are NaN; NaN propagates; *)
(* every ordering comparison with NaN is false.                            *)
(*                                                                         *)
(* The caller's functions.  f and df are drawn in Init from the            *)
(* polynomials f(x) = a2*x*x + a1*x + a0 and df(x) = d1*x + d0 with small  *)
(* integer coefficients (a term with coefficient 0 is not written); df is  *)
(* NOT tied to f (the code accepts any df).                                *)
(***************************************************************************)
EXTENDS Integers, FiniteSets, Sequences, TLC

VARIABLES
    call,       \* which function the caller invoked
    fc,         \* coefficients <<a2, a1, a0>> of the caller's f
    dc,         \* coefficients <<d1, d0>> of the caller's df
    x_0, x_1,   \* the caller's start point / bracket endpoints
    eps,        \* the caller's tolerance
    max_its_n,  \* the caller's Newton budget (max_its of newton_raphson)
    max_its_b,  \* the caller's bisection budget (max_its of bisection)
    pc,         \* where control is
    n,          \* the frame of newton_raphson: [x, count]
    b,          \* the frame of bisection
    outcome,    \* how the caller's call ended
    result,     \* the value returned (when outcome = "return")
    raiser,     \* the function whose raise statement reached the caller
    newton_end, \* how newton_raphson ended
    guards,     \* evaluations of newton_raphson's loop guard (line 35)
    updates,    \* executions of newton_raphson's update (line 36)
    mids,       \* the midpoints at which bisection evaluated f
    b_args      \* the arguments bisection was called with

vars == <<call, fc, dc, x_0, x_1, eps, max_its_n, max_its_b, pc, n, b,
          outcome, result, raiser, newton_end, guards, updates, mids, b_args>>

inputs == <<call, fc, dc, x_0, x_1, eps, max_its_n, max_its_b>>

----------------------------------------------------------------------------
(* Bounds of the model.                                                    *)

MaxIts == 2      \* budgets are 0, 1 and MaxIts
MaxX == 2        \* start points and endpoints range over -MaxX..MaxX
MaxEps == 2      \* tolerances range over 1..MaxEps
MaxFloat == 100  \* the largest finite float, scaled down (sys.float_info.max)

QuadCoefs == {0, 1}
Coefs == {-2, -1, 0, 1, 2}
DfSlopes == {0, 2}
DfConsts == {0, 1}

----------------------------------------------------------------------------
(* Scalar arithmetic.                                                      *)

Inf == MaxFloat + 1
NaN == MaxFloat + 2

IsInf(v) == v = Inf \/ v = -Inf

Min(u, v) == IF u <= v THEN u ELSE v
Max(u, v) == IF u >= v THEN u ELSE v

\* The float nearest an exact result v of finite operands.
Overflow(v) == IF v > MaxFloat THEN Inf ELSE IF v < -MaxFloat THEN -Inf ELSE v

Sign(v) == IF v > 0 THEN 1 ELSE IF v < 0 THEN -1 ELSE 0

\* -v
FNeg(v) == IF v = NaN THEN NaN ELSE -v

\* abs(v)
Abs(v) == IF v = NaN THEN NaN ELSE IF v < 0 THEN -v ELSE v

\* u + v
FAdd(u, v) ==
    IF u = NaN \/ v = NaN THEN NaN
    ELSE IF IsInf(u) THEN (IF v = -u THEN NaN ELSE u)
    ELSE IF IsInf(v) THEN v
    ELSE Overflow(u + v)

\* u - v
FSub(u, v) == FAdd(u, FNeg(v))

\* u * v
FMul(u, v) ==
    IF u = NaN \/ v = NaN THEN NaN
    ELSE IF IsInf(u) \/ IsInf(v)
         THEN (IF u = 0 \/ v = 0 THEN NaN ELSE Sign(u) * Sign(v) * Inf)
    ELSE Overflow(u * v)

\* num/den for finite num and den > 0, rounded to nearest, ties to even.
RoundPos(num, den) ==
    LET q == num \div den
        r == num % den
    IN  IF 2 * r < den THEN q
        ELSE IF 2 * r > den THEN q + 1
        ELSE IF q % 2 = 0 THEN q ELSE q + 1

\* u / v for v # 0 (a zero divisor raises ZeroDivisionError, see the actions)
TrueDiv(u, v) ==
    IF u = NaN \/ v = NaN THEN NaN
    ELSE IF IsInf(u) THEN (IF IsInf(v) THEN NaN ELSE Sign(u) * Sign(v) * Inf)
    ELSE IF IsInf(v) THEN 0
    ELSE IF v > 0 THEN RoundPos(u, v) ELSE RoundPos(-u, -v)

\* u >= v, u > v, u < v on floats
FGe(u, v) == u # NaN /\ v # NaN /\ u >= v
FGt(u, v) == u # NaN /\ v # NaN /\ u > v
FLt(u, v) == u # NaN /\ v # NaN /\ u < v

\* The caller's f and df.
F(x) ==
    LET quad == IF fc[1] = 0 THEN 0 ELSE FMul(fc[1], FMul(x, x))
        lin == IF fc[2] = 0 THEN 0 ELSE FMul(fc[2], x)
    IN  FAdd(FAdd(quad, lin), fc[3])
DF(x) ==
    LET lin == IF dc[1] = 0 THEN 0 ELSE FMul(dc[1], x)
    IN  FAdd(lin, dc[2])

----------------------------------------------------------------------------
(* The statements of the three functions, as operators.                    *)

\* line 35: while (abs(f(x_0)) >= eps)
NewtonGuard(x, e) == FGe(Abs(F(x)), e)

\* line 36: x_0 = x_0 - f(x_0)/df(x_0)      (df(x_0) # 0)
NewtonUpdate(x) == FSub(x, TrueDiv(F(x), DF(x)))

\* A budget test that is off by one.
NewtonExceededEarly(count, max) == count >= max

\* line 38: if count > max_its
NewtonExceeded(count, max) == count > max

\* A bracket check that accepts a zero product.
BracketRejectedStrict(f0, f1) == FGt(FMul(f0, f1), 0)

\* line 71: if f0 * f1 >= 0
BracketRejected(f0, f1) == FGe(FMul(f0, f1), 0)

\* An orientation that swaps on the wrong sign.
OrientInverted(x0, x1) == IF FGt(F(x0), 0) THEN <<x1, x0>> ELSE <<x0, x1>>

\* lines 75-76: if f0 < 0: x_0, x_1 = x_1, x_0
Orient(x0, x1) == IF FLt(F(x0), 0) THEN <<x1, x0>> ELSE <<x0, x1>>

\* The half-width of the bracket in place of its midpoint.
MidpointHalfWidth(x0, x1) == TrueDiv(FSub(x1, x0), 2)

\* lines 77, 85: x_temp = (x_0 + x_1) / 2
Midpoint(x0, x1) == TrueDiv(FAdd(x0, x1), 2)

\* line 80: while (abs(f_test) >= eps)
BisectionGuard(ft, e) == FGe(Abs(ft), e)

\* A narrowing that replaces the other endpoint.
NarrowInverted(x0, x1, xt, ft) == IF FGe(ft, 0) THEN <<x0, xt>> ELSE <<xt, x1>>

\* lines 81-84: the half of the bracket that is kept, as <<x_0, x_1>>
Narrow(x0, x1, xt, ft) == IF FGe(ft, 0) THEN <<xt, x1>> ELSE <<x0, xt>>

\* A budget test that is off by one.
BisectionExceededEarly(count, max) == count >= max

\* line 88: if count > max_its
BisectionExceeded(count, max) == count > max

\* A bare except clause.
SolveCatchesAll(exc) == TRUE

\* line 128: except ConvergenceError
SolveCatches(exc) == exc = "ConvergenceError"

\* A fallback that restarts from Newton's last iterate.
FallbackFromIterate(last) == <<last, x_1, eps, max_its_b>>

\* line 129: bisection(f, x_0, x_1, eps, max_its_b), as <<x_0, x_1, eps, max_its>>.
\* x_0 is solve's own parameter: newton_raphson rebinds only its local x_0,
\* whose last value is `last`.
FallbackArgs(last) == <<x_0, x_1, eps, max_its_b>>

\* The frame of a bisection call before its first statement.
BisectionFrame(args) ==
    [x_0 |-> args[1], x_1 |-> args[2], eps |-> args[3], max_its |-> args[4],
     x_temp |-> 0, f_test |-> 0, count |-> 0]

NoBisection == BisectionFrame(<<0, 0, 0, 0>>)
NoArgs == <<>>

----------------------------------------------------------------------------
(* Initial states: one call by the caller, with its arguments.             *)

Budgets == {0, 1, MaxIts}
Points == -MaxX..MaxX
Tolerances == 1..MaxEps
Functions == QuadCoefs \X Coefs \X Coefs
Derivatives == DfSlopes \X DfConsts

InitCommon ==
    /\ fc \in Functions
    /\ x_0 \in Points
    /\ eps \in Tolerances
    /\ outcome = "none"
    /\ result = 0
    /\ raiser = "none"
    /\ newton_end = "none"
    /\ guards = 0
    /\ updates = 0
    /\ mids = {}

\* newton_raphson(f, df, x_0, eps, max_its), line 34
InitNewton ==
    /\ call = "newton_raphson"
    /\ dc \in Derivatives
    /\ max_its_n \in Budgets
    /\ x_1 = 0
    /\ max_its_b = 0
    /\ pc = "newton"
    /\ n = [x |-> x_0, count |-> 0]
    /\ b = NoBisection
    /\ b_args = NoArgs

\* bisection(f, x_0, x_1, eps, max_its)
InitBisection ==
    /\ call = "bisection"
    /\ dc = <<0, 0>>
    /\ x_1 \in Points
    /\ max_its_n = 0
    /\ max_its_b \in Budgets
    /\ pc = "bisection"
    /\ n = [x |-> 0, count |-> 0]
    /\ b = BisectionFrame(<<x_0, x_1, eps, max_its_b>>)
    /\ b_args = <<x_0, x_1, eps, max_its_b>>

\* solve(f, df, x_0, x_1, eps, max_its_n, max_its_b), lines 125-126
InitSolve ==
    /\ call = "solve"
    /\ dc \in Derivatives
    /\ x_1 \in Points
    /\ max_its_n \in Budgets
    /\ max_its_b \in Budgets
    /\ pc = "newton"
    /\ n = [x |-> x_0, count |-> 0]
    /\ b = NoBisection
    /\ b_args = NoArgs

Init == InitCommon /\ (InitNewton \/ InitBisection \/ InitSolve)

----------------------------------------------------------------------------
(* newton_raphson, lines 34-41, one action per pass of the loop.           *)

\* How a call ends for the caller.
Finish(how, value, who) ==
    /\ pc' = "done"
    /\ outcome' = how
    /\ result' = value
    /\ raiser' = who

\* The guard fails: line 41 returns x_0 (solve returns it at line 127).
NewtonReturn ==
    /\ pc = "newton"
    /\ ~NewtonGuard(n.x, eps)
    /\ guards' = guards + 1
    /\ newton_end' = "return"
    /\ Finish("return", n.x, "none")
    /\ UNCHANGED <<inputs, n, b, updates, mids, b_args>>

\* newton_raphson raises exc with its local x_0 at `last`.  A direct caller
\* receives it; in solve the except clause of line 128 decides: a caught
\* exception leads to the call of bisection at line 129, any other reaches
\* solve's caller.
NewtonRaises(exc, last) ==
    /\ newton_end' = exc
    /\ IF call = "solve" /\ SolveCatches(exc)
       THEN /\ pc' = "bisection"
            /\ b' = BisectionFrame(FallbackArgs(last))
            /\ b_args' = FallbackArgs(last)
            /\ UNCHANGED <<outcome, result, raiser>>
       ELSE /\ Finish(exc, 0, "newton_raphson")
            /\ UNCHANGED <<b, b_args>>

\* The guard holds and df(x_0) is zero: the division of line 36 raises
\* ZeroDivisionError.
NewtonZeroDivision ==
    /\ pc = "newton"
    /\ NewtonGuard(n.x, eps)
    /\ DF(n.x) = 0
    /\ guards' = guards + 1
    /\ NewtonRaises("ZeroDivisionError", n.x)
    /\ UNCHANGED <<inputs, n, updates, mids>>

\* The guard holds, the update is made and the budget is not exceeded.
NewtonIterate ==
    /\ pc = "newton"
    /\ NewtonGuard(n.x, eps)
    /\ DF(n.x) # 0
    /\ ~NewtonExceeded(n.count + 1, max_its_n)
    /\ guards' = guards + 1
    /\ updates' = updates + 1
    /\ n' = [x |-> NewtonUpdate(n.x), count |-> n.count + 1]
    /\ UNCHANGED <<inputs, pc, b, outcome, result, raiser, newton_end, mids,
                   b_args>>

\* The guard holds, the update is made and the budget is exceeded: lines
\* 39-40 raise ConvergenceError.
NewtonExceed ==
    /\ pc = "newton"
    /\ NewtonGuard(n.x, eps)
    /\ DF(n.x) # 0
    /\ NewtonExceeded(n.count + 1, max_its_n)
    /\ guards' = guards + 1
    /\ updates' = updates + 1
    /\ n' = [x |-> NewtonUpdate(n.x), count |-> n.count + 1]
    /\ NewtonRaises("ConvergenceError", NewtonUpdate(n.x))
    /\ UNCHANGED <<inputs, mids>>

----------------------------------------------------------------------------
(* bisection, lines 69-91.                                                 *)

\* line 72: the bracket check rejects the endpoints.
BisectionInvalid ==
    /\ pc = "bisection"
    /\ BracketRejected(F(b.x_0), F(b.x_1))
    /\ Finish("ValueError", 0, "bisection")
    /\ UNCHANGED <<inputs, n, b, newton_end, guards, updates, mids, b_args>>

\* lines 75-79: orientation, first midpoint.
BisectionStart ==
    /\ pc = "bisection"
    /\ ~BracketRejected(F(b.x_0), F(b.x_1))
    /\ LET o == Orient(b.x_0, b.x_1)
           m == Midpoint(o[1], o[2])
       IN  /\ b' = [b EXCEPT !.x_0 = o[1], !.x_1 = o[2], !.x_temp = m,
                             !.f_test = F(m), !.count = 0]
           /\ mids' = mids \cup {m}
    /\ pc' = "bisection_loop"
    /\ UNCHANGED <<inputs, n, outcome, result, raiser, newton_end, guards,
                   updates, b_args>>

\* One pass of the loop, lines 80-88, as the frame it leaves.
BisectionPass ==
    LET h == Narrow(b.x_0, b.x_1, b.x_temp, b.f_test)
        m == Midpoint(h[1], h[2])
    IN  [b EXCEPT !.x_0 = h[1], !.x_1 = h[2], !.x_temp = m, !.f_test = F(m),
                  !.count = b.count + 1]

\* The guard holds, the pass is made and the budget is not exceeded.
BisectionIterate ==
    /\ pc = "bisection_loop"
    /\ BisectionGuard(b.f_test, b.eps)
    /\ ~BisectionExceeded(b.count + 1, b.max_its)
    /\ b' = BisectionPass
    /\ mids' = mids \cup {BisectionPass.x_temp}
    /\ UNCHANGED <<inputs, pc, n, outcome, result, raiser, newton_end, guards,
                   updates, b_args>>

\* The guard holds, the pass is made and the budget is exceeded: lines
\* 89-90 raise ConvergenceError, which reaches the caller (also from solve:
\* line 129 is outside the try block).
BisectionExceed ==
    /\ pc = "bisection_loop"
    /\ BisectionGuard(b.f_test, b.eps)
    /\ BisectionExceeded(b.count + 1, b.max_its)
    /\ b' = BisectionPass
    /\ mids' = mids \cup {BisectionPass.x_temp}
    /\ Finish("ConvergenceError", 0, "bisection")
    /\ UNCHANGED <<inputs, n, newton_end, guards, updates, b_args>>

\* The guard fails: line 91 returns x_temp (solve returns it at line 130).
BisectionReturn ==
    /\ pc = "bisection_loop"
    /\ ~BisectionGuard(b.f_test, b.eps)
    /\ Finish("return", b.x_temp, "none")
    /\ UNCHANGED <<inputs, n, b, newton_end, guards, updates, mids, b_args>>

----------------------------------------------------------------------------
(* bisection as a function of its arguments: the outcome <<how, value>> of *)
(* the call bisection(f, x0, x1, e, m), lines 69-91.                       *)

RECURSIVE BisectionLoop(_, _, _, _, _, _)
\* lines 80-91 from the frame (x0, x1, xt, count)
BisectionLoop(x0, x1, xt, count, e, m) ==
    IF ~BisectionGuard(F(xt), e) THEN <<"return", xt>>
    ELSE IF BisectionExceeded(count + 1, m) THEN <<"ConvergenceError", 0>>
    ELSE LET h == Narrow(x0, x1, xt, F(xt))
         IN  BisectionLoop(h[1], h[2], Midpoint(h[1], h[2]), count + 1, e, m)

BisectionOutcome(x0, x1, e, m) ==
    IF BracketRejected(F(x0), F(x1)) THEN <<"ValueError", 0>>
    ELSE LET o == Orient(x0, x1)
         IN  BisectionLoop(o[1], o[2], Midpoint(o[1], o[2]), 0, e, m)

----------------------------------------------------------------------------

Next ==
    \/ NewtonReturn
    \/ NewtonZeroDivision
    \/ NewtonIterate
    \/ NewtonExceed
    \/ BisectionInvalid
    \/ BisectionStart
    \/ BisectionIterate
    \/ BisectionExceed
    \/ BisectionReturn

Spec == Init /\ [][Next]_vars

----------------------------------------------------------------------------
(* Vocabulary of the properties.                                           *)

Done == pc = "done"
BisectionCalled == b_args # NoArgs
ReturnedByBisection == Done /\ outcome = "return" /\ BisectionCalled
\* abs(f(x)) < e and abs(f(x)) >= e, as Python evaluates them.
Within(x, e) == FLt(Abs(F(x)), e)
Outside(x, e) == FGe(Abs(F(x)), e)
\* f(x0) * f(x1) < 0 and >= 0, as Python evaluates them.
ProductNegative(x0, x1) == FLt(FMul(F(x0), F(x1)), 0)
ProductNonNegative(x0, x1) == FGe(FMul(F(x0), F(x1)), 0)
\* The endpoints the caller of bisection supplied.
Lo == Min(b_args[1], b_args[2])
Hi == Max(b_args[1], b_args[2])
\* f stays at least eps away from zero on the whole real line: a quadratic
\* x^2 + a1*x + a0 with minimum a0 - a1^2/4 >= eps, or a constant.
NeverMeetsTolerance ==
    \/ fc[1] = 1 /\ 4 * fc[3] - fc[2] * fc[2] >= 4 * eps
    \/ fc[1] = 0 /\ fc[2] = 0 /\ Abs(fc[3]) >= eps

----------------------------------------------------------------------------
(* C1.  In solve, bisection is called if and only if newton_raphson raised *)
(* ConvergenceError.  When Newton converges solve returns Newton's value   *)
(* and no statement of bisection runs (f(x_1) is not evaluated by it, no   *)
(* midpoint is); when Newton ends in another fault (ZeroDivisionError)     *)
(* that fault reaches solve's caller and bisection is never called.        *)
C1_FallbackIffConvergenceError ==
    call = "solve" =>
        /\ BisectionCalled <=> newton_end = "ConvergenceError"
        /\ newton_end = "return" =>
              /\ Done /\ outcome = "return" /\ result = n.x
              /\ ~BisectionCalled /\ b = NoBisection /\ mids = {}
        /\ newton_end = "ZeroDivisionError" =>
              /\ Done /\ outcome = "ZeroDivisionError"
              /\ raiser = "newton_raphson"
              /\ ~BisectionCalled /\ b = NoBisection /\ mids = {}

C1_Witness ==
    /\ call = "solve" /\ Done
    /\ newton_end = "ZeroDivisionError"
    /\ updates >= 1
    /\ ProductNegative(x_0, x_1)

(* C2.  Every value returned by newton_raphson, bisection or solve         *)
(* satisfies abs(f(x)) < eps strictly.                                     *)
C2_ReturnedMeetsTolerance ==
    outcome = "return" => Within(result, eps)

C6_AnyDfExhaustsBudget ==
    (call = "newton_raphson" /\ Done /\ NeverMeetsTolerance)
        => /\ outcome = "ConvergenceError"
           /\ guards = max_its_n + 1
           /\ updates = max_its_n + 1

(* C6, amended.  For a function that never meets the tolerance,            *)
(* newton_raphson raises ConvergenceError after exactly max_its + 1        *)
(* evaluations of the loop guard and max_its + 1 updates of x, unless a    *)
(* floating-point fault ends the loop first: ZeroDivisionError at an       *)
(* iterate where df is zero, or the return of an x at which f evaluates to *)
(* NaN (the guard is false for NaN).  Every ConvergenceError of            *)
(* newton_raphson is raised at those counts.                               *)
C6_ExhaustsBudgetUnlessFault ==
    /\ (call = "newton_raphson" /\ Done /\ NeverMeetsTolerance)
          => \/ outcome = "ZeroDivisionError" /\ DF(n.x) = 0
             \/ outcome = "return" /\ F(result) = NaN /\ guards <= max_its_n + 1
             \/ /\ outcome = "ConvergenceError"
                /\ raiser = "newton_raphson"
                /\ guards = max_its_n + 1
                /\ updates = max_its_n + 1
                /\ n.count = max_its_n + 1
    /\ newton_end = "ConvergenceError"
          => (guards = max_its_n + 1 /\ updates = max_its_n + 1)

C6_Witness ==
    /\ call = "newton_raphson" /\ outcome = "ConvergenceError"
    /\ fc = <<1, 0, 1>>
    /\ max_its_n = MaxIts
    /\ guards = MaxIts + 1

(* C7.  On the fallback path solve runs bisection on its own x_0 (not on   *)
(* Newton's last iterate), x_1, eps and max_its_b, and ends as the direct  *)
(* call bisection(f, x_0, x_1, eps, max_its_b) ends; a ConvergenceError    *)
(* that leaves solve was raised by bisection.                              *)
C7_FallbackIsDirectBisection ==
    call = "solve" =>
        /\ BisectionCalled =>
              /\ b_args = <<x_0, x_1, eps, max_its_b>>
              /\ Done => <<outcome, result>> =
                             BisectionOutcome(x_0, x_1, eps, max_its_b)
        /\ outcome = "ConvergenceError" =>
              (raiser = "bisection" /\ BisectionCalled)

C7_Witness ==
    /\ call = "solve" /\ outcome = "return"
    /\ newton_end = "ConvergenceError"
    /\ n.x # x_0
    /\ max_its_b # max_its_n

(* C8, as stated.  In every pass of bisection's loop with f_mid >= 0 the   *)
(* smaller endpoint of the working bracket moves up to the midpoint and    *)
(* the larger is kept; with f_mid < 0 the larger endpoint moves down to    *)
(* the midpoint and the smaller is kept.                                   *)
C8_LowerBoundMovesUp ==
    [][(pc = "bisection_loop" /\ b'.count = b.count + 1) =>
          IF FGe(b.f_test, 0)
          THEN /\ Min(b'.x_0, b'.x_1) = b.x_temp
               /\ Max(b'.x_0, b'.x_1) = Max(b.x_0, b.x_1)
          ELSE /\ Max(b'.x_0, b'.x_1) = b.x_temp
               /\ Min(b'.x_0, b'.x_1) = Min(b.x_0, b.x_1)]_vars

(* C8, amended.  In every pass of bisection's loop with f_mid >= 0 the     *)
(* working x_0 (the endpoint where f is positive, whichever side it is on) *)
(* is replaced by the midpoint and x_1 is kept; with f_mid < 0 the working *)
(* x_1 is replaced by the midpoint and x_0 is kept.                        *)
C8_PositiveEndMoves ==
    [][(pc = "bisection_loop" /\ b'.count = b.count + 1) =>
          IF FGe(b.f_test, 0)
          THEN b'.x_0 = b.x_temp /\ b'.x_1 = b.x_1
          ELSE b'.x_1 = b.x_temp /\ b'.x_0 = b.x_0]_vars

C8_Witness ==
    /\ pc = "bisection_loop"
    /\ b.count >= 1
    /\ b.x_0 > b.x_1
    /\ b.x_0 # Max(b_args[1], b_args[2])

(* C9.  ConvergenceError is raised only without the tolerance being met:   *)
(* whenever it is raised the current candidate (Newton's x, bisection's    *)
(* midpoint) has abs(f(candidate)) >= eps.                                 *)
C9_NoConvergedCandidateDiscarded ==
    /\ newton_end = "ConvergenceError" => Outside(n.x, eps)
    /\ (outcome = "ConvergenceError" /\ raiser = "bisection")
          => Outside(b.x_temp, b.eps)

====
